---- MODULE Spec2Model ----
(***************************************************************************)
(* State-machine model of the chat composer, src/src/components/           *)
(* ChatInput.tsx: the draft (text prop + attachments), the asynchronous    *)
(* handleSend, the speech-recognition wiring, the textarea height effect   *)
(* and the model dropdown.                                                 *)
(*                                                                         *)
(* Text is a sequence of one-character strings.  Every React event handler *)
(* is one action; the effects that React runs after the render caused by   *)
(* the handler (height effect, speech-recognition effect) are part of the  *)
(* same action, because React flushes them before the next event.          *)
(***************************************************************************)
EXTENDS Integers, Sequences, FiniteSets, TLC

\* ------------------------------------------------------------------ bounds
MaxText == 3        \* longest draft text dictation may produce
MaxLines == 7       \* most lines of a pasted block
MaxPick == 2        \* most files chosen in one file-picker selection
MaxFiles == 2       \* most attachments staged at once
MaxUrls == 2        \* most preview URLs created in one run
MaxSends == 2       \* most handleSend calls that pass the gate in one run
MaxSessions == 2    \* most recognition sessions active at once

\* ------------------------------------------------------- program constants
MinHeight == 40         \* '40px'
MaxHeight == 180        \* Math.min(scrollHeight, 180)
ExpandedHeight == 480   \* '480px'
LineHeight == 24        \* scrollHeight / 24 (text-base: 1.5rem line height)
PadY == 8               \* py-2: 0.5rem above and below the text
FullscreenLines == 2    \* lineCount > 2

\* -------------------------------------------------------------------- text
Max(a, b) == IF a >= b THEN a ELSE b
Min(a, b) == IF a <= b THEN a ELSE b

Whitespace == {" ", "\n"}
\* the texts the user types: empty, whitespace only, visible
Texts == {<<>>, <<" ">>, <<"a">>}

RECURSIVE TrimStart(_)
TrimStart(t) ==
    IF t # <<>> /\ Head(t) \in Whitespace THEN TrimStart(Tail(t)) ELSE t

RECURSIVE TrimEnd(_)
TrimEnd(t) ==
    IF t # <<>> /\ t[Len(t)] \in Whitespace THEN TrimEnd(SubSeq(t, 1, Len(t) - 1)) ELSE t

\* String.prototype.trim
Trim(t) == TrimEnd(TrimStart(t))

\* n lines of one character c joined by line breaks: a pasted block
RECURSIVE Block(_, _)
Block(c, n) == IF n <= 1 THEN <<c>> ELSE <<c, "\n">> \o Block(c, n - 1)

Blocks == {Block(c, n) : c \in {"a", " "}, n \in 3..MaxLines}

RECURSIVE Newlines(_)
Newlines(t) ==
    IF t = <<>> THEN 0 ELSE (IF Head(t) = "\n" THEN 1 ELSE 0) + Newlines(Tail(t))

\* ------------------------------------------------------------------- files
PngFile == [name |-> "a.png", type |-> "image/png", bytes |-> <<137, 80, 78>>]
JpgFile == [name |-> "b.jpg", type |-> "image/jpeg", bytes |-> <<255>>]

\* File objects are numbered in the order the picker hands them over: every
\* selection yields new objects, alternately a PNG and a JPEG
FileOf(f) == IF f % 2 = 1 THEN PngFile ELSE JpgFile

B64Chars ==
    << "A","B","C","D","E","F","G","H","I","J","K","L","M","N","O","P",
       "Q","R","S","T","U","V","W","X","Y","Z","a","b","c","d","e","f",
       "g","h","i","j","k","l","m","n","o","p","q","r","s","t","u","v",
       "w","x","y","z","0","1","2","3","4","5","6","7","8","9","+","/" >>

B64(n) == B64Chars[n + 1]

\* RFC 4648 base64 of a byte sequence
RECURSIVE Base64(_)
Base64(bs) ==
    IF Len(bs) = 0 THEN <<>>
    ELSE IF Len(bs) = 1 THEN
        << B64(bs[1] \div 4), B64((bs[1] % 4) * 16), "=", "=" >>
    ELSE IF Len(bs) = 2 THEN
        << B64(bs[1] \div 4), B64((bs[1] % 4) * 16 + bs[2] \div 16),
           B64((bs[2] % 16) * 4), "=" >>
    ELSE
        << B64(bs[1] \div 4), B64((bs[1] % 4) * 16 + bs[2] \div 16),
           B64((bs[2] % 16) * 4 + bs[3] \div 64), B64(bs[3] % 64) >>
        \o Base64(SubSeq(bs, 4, Len(bs)))

\* FileReader.readAsDataURL: "data:<type>;base64,<payload>"
ReadAsDataURL(f) == <<"data:", FileOf(f).type, ";base64", ",">> \o Base64(FileOf(f).bytes)

\* String.prototype.split(','): the pieces between the commas
RECURSIVE SplitComma(_, _, _)
SplitComma(s, cur, acc) ==
    IF s = <<>> THEN Append(acc, cur)
    ELSE IF Head(s) = "," THEN SplitComma(Tail(s), <<>>, Append(acc, cur))
    ELSE SplitComma(Tail(s), Append(cur, Head(s)), acc)

\* a slip: the piece before the comma
PayloadIndexHeader == 1 - 1

\* the index handleSend takes of the split: result.split(',')[1]
PayloadIndex == 1

\* resolve(result.split(',')[1])
EncodeFile(f) == SplitComma(ReadAsDataURL(f), <<>>, <<>>)[PayloadIndex + 1]

\* imageParts.push({ inlineData: { data: base64, mimeType: file.type } })
ImagePart(f, base64) == [data |-> base64, mimeType |-> FileOf(f).type]


\* ---------------------------------------------------------------- state
VARIABLES
    value,            \* prop value: the draft text, owned by the caller
    isLoading,        \* prop isLoading, owned by the caller
    selectedImages,   \* useState<File[]>: File objects, numbered 1..created
    imagePreviews,    \* useState<string[]>: object URLs, numbered 1..created
    created,          \* number of File objects picked = number of object URLs created
    revokes,          \* revokes[u]: how often URL.revokeObjectURL(u) was called
    sends,            \* the handleSend calls past the gate whose MessageSender call has not ended
    started,          \* number of handleSend calls that passed the gate
    calls,            \* number of onSendMessage invocations
    isListening,      \* useState(false)
    hasSpeech,        \* 'SpeechRecognition' in window || 'webkitSpeechRecognition' in window
    recs,             \* recognition objects not yet collected; the last is recognitionRef.current
    isExpanded,       \* useState(false)
    height,           \* textareaRef.current.style.height, in px
    lineCount,        \* useState(1), set by the height effect
    showModelDropdown,\* useState(false)
    selectedModel,    \* prop selectedModel, owned by the caller
    lastEntry,        \* index in GEMINI_MODELS of the dropdown entry clicked last (0: none yet)
    lastOp            \* the event handled last, where a property needs it ("other" otherwise)

draftVars == <<selectedImages, imagePreviews, created, revokes>>
sendVars == <<isLoading, sends, started, calls>>
speechVars == <<isListening, hasSpeech, recs>>
layoutVars == <<isExpanded, height, lineCount>>
menuVars == <<showModelDropdown, selectedModel, lastEntry>>
vars == <<value, draftVars, sendVars, speechVars, layoutVars, menuVars, lastOp>>

\* ------------------------------------------------- height effect (98-117)
\* the height the text needs: padding plus one line box per line
ContentHeight(t) == 2 * PadY + LineHeight * (1 + Newlines(t))

\* Element.scrollHeight of the textarea whose style height is h
ScrollHeight(h, t) == Max(h, ContentHeight(t))

\* a slip: the cap is left out
GrownHeightUncapped(t) == ScrollHeight(MinHeight, t)

\* Math.min(scrollHeight, 180), scrollHeight read at style height 40px
GrownHeight(t) == Min(ScrollHeight(MinHeight, t), MaxHeight)

\* !value || value.trim() === ''
IsBlank(t) == t = <<>> \/ Trim(t) = <<>>

NewHeight(expanded, t) ==
    IF expanded THEN ExpandedHeight
    ELSE IF IsBlank(t) THEN MinHeight
    ELSE GrownHeight(t)

\* Math.ceil(a / b)
CeilDiv(a, b) == (a + b - 1) \div b

\* Math.ceil(textareaRef.current.scrollHeight / 24), read after the height is set
NewLineCount(expanded, t) == CeilDiv(ScrollHeight(NewHeight(expanded, t), t), LineHeight)

HeightEffect(expanded, t) ==
    /\ height' = NewHeight(expanded, t)
    /\ lineCount' = NewLineCount(expanded, t)

\* ------------------------------------- speech-recognition effect (124-143)
Active(r) == r.st # "idle"

\* objects that can still fire events; an idle object that the ref no longer
\* holds is unreachable
RECURSIVE ActiveOnly(_)
ActiveOnly(rs) ==
    IF rs = <<>> THEN <<>>
    ELSE (IF Active(Head(rs)) THEN <<Head(rs)>> ELSE <<>>) \o ActiveOnly(Tail(rs))

\* new SpeechRecognition() with handlers closing over the value of this render
NewRecognition(v) == [val |-> v, st |-> "idle", stopped |-> FALSE]

\* a slip: the object is created without the capability test
SpeechEffectAlways(v) == recs' = Append(ActiveOnly(recs), NewRecognition(v))

\* the effect body: recognitionRef.current is overwritten, the old object is
\* neither stopped nor aborted
SpeechEffect(v) ==
    recs' = IF hasSpeech THEN Append(ActiveOnly(recs), NewRecognition(v)) ELSE recs

\* the caller's onChange stores the text; the render that follows runs the
\* effects whose dependencies changed
OnChange(v) ==
    /\ value' = v
    /\ HeightEffect(isExpanded, v)
    /\ IF v # value THEN SpeechEffect(v) ELSE recs' = recs

\* --------------------------------------------------------------- the draft
\* value.trim() || selectedImages.length > 0
DraftNonEmpty == Trim(value) # <<>> \/ Len(selectedImages) > 0

\* textarea onChange={(e) => onChange(e.target.value)}
TextareaChange(t) ==
    /\ t # value
    /\ OnChange(t)
    /\ lastOp' = "other"
    /\ UNCHANGED <<draftVars, sendVars, isListening, hasSpeech, isExpanded, menuVars>>

Type == \E t \in Texts : TextareaChange(t)

Paste == \E t \in Blocks : TextareaChange(t)

\* Array.from(e.target.files): the n File objects of this selection
PickedFiles(n) == [k \in 1..n |-> created + k]

\* URL.createObjectURL(file): a new URL for every call; URL u is the one
\* created for File object u
CreateObjectURL(f) == f

\* a slip: the previews in the reverse order of the files
NewPreviewsReversed(files) ==
    [k \in 1..Len(files) |-> CreateObjectURL(files[Len(files) + 1 - k])]

\* files.map(file => URL.createObjectURL(file))
NewPreviews(files) == [k \in 1..Len(files) |-> CreateObjectURL(files[k])]

HandleImageSelect(n) ==
    /\ Len(selectedImages) + n <= MaxFiles
    /\ created + n <= MaxUrls
    /\ selectedImages' = selectedImages \o PickedFiles(n)
    /\ imagePreviews' = imagePreviews \o NewPreviews(PickedFiles(n))
    /\ created' = created + n
    /\ revokes' = revokes \o [k \in 1..n |-> 0]
    /\ lastOp' = "other"
    /\ UNCHANGED <<value, sendVars, speechVars, layoutVars, menuVars>>

AddAttachments == \E n \in 1..MaxPick : HandleImageSelect(n)

\* a slip: the last element is dropped whatever the index
FilterLast(prev, index) == SubSeq(prev, 1, Len(prev) - 1)

\* prev.filter((_, i) => i !== index), index counted from 0
RECURSIVE FilterIndex(_, _)
FilterIndex(prev, index) ==
    IF prev = <<>> THEN <<>>
    ELSE (IF index = 0 THEN <<>> ELSE <<Head(prev)>>) \o FilterIndex(Tail(prev), index - 1)

\* a slip: the preview is dropped from the list and its URL never revoked
RevokeNothing(prev, index) == revokes

\* URL.revokeObjectURL(prev[index]); prev[index] is undefined out of range
RevokeAt(prev, index) ==
    IF index >= 0 /\ index < Len(prev)
    THEN [revokes EXCEPT ![prev[index + 1]] = @ + 1]
    ELSE revokes

RemoveImage(index) ==
    /\ selectedImages' = FilterIndex(selectedImages, index)
    /\ revokes' = RevokeAt(imagePreviews, index)
    /\ imagePreviews' = FilterIndex(imagePreviews, index)
    /\ lastOp' = "other"
    /\ UNCHANGED <<value, created, sendVars, speechVars, layoutVars, menuVars>>

RemoveAttachment == \E index \in 0..Len(imagePreviews) : RemoveImage(index)

\* -------------------------------------------------------- handleSend (189-215)
\* a slip: the gate forgets isLoading
SendGateIgnoresLoading(v, images, loading) == ~(Trim(v) = <<>> /\ Len(images) = 0)

\* the gate of line 190, negated: the call goes on
SendGate(v, images, loading) == ~((Trim(v) = <<>> /\ Len(images) = 0) \/ loading)

\* the first argument of onSendMessage: the value of the render handleSend closed over
SentText(s) == s.text

\* the second argument: imageParts.length > 0 ? imageParts : undefined
PartsArg(parts) ==
    IF Len(parts) > 0 THEN [defined |-> TRUE, list |-> parts]
    ELSE [defined |-> FALSE, list |-> <<>>]

\* a call of handleSend past the gate; text and files are the closure's copies of
\* value and selectedImages; during: the calls still encoding when this one began
NewSend(v, images) ==
    [ id |-> started + 1, text |-> v, files |-> images, parts |-> <<>>, pc |-> "reading",
      during |-> {sends[i].id : i \in {j \in 1..Len(sends) : sends[j].pc = "reading"}},
      sentText |-> <<>>, sentParts |-> PartsArg(<<>>) ]

\* a call whose await never returns: its closure is garbage, it stays suspended
Hung(s) ==
    [ id |-> s.id, text |-> <<>>, files |-> <<>>, parts |-> <<>>, pc |-> "hung",
      during |-> {}, sentText |-> <<>>, sentParts |-> PartsArg(<<>>) ]

\* line 211 for the send s: onSendMessage(value, imageParts or undefined); the
\* caller's MessageSender call is in flight from here on
Dispatch(s) ==
    [s EXCEPT !.pc = "done", !.sentText = SentText(s), !.sentParts = PartsArg(s.parts)]

\* lines 212-214: onChange(''); setSelectedImages([]); setImagePreviews([])
ClearDraft ==
    /\ OnChange(<<>>)
    /\ selectedImages' = <<>>
    /\ imagePreviews' = <<>>
    /\ UNCHANGED <<created, revokes>>

\* handleSend, from the send button or from Enter in the textarea, up to its
\* first await (or to its end when there is nothing to encode).  The caller
\* raises isLoading when onSendMessage is called.
HandleSend ==
    IF ~SendGate(value, selectedImages, isLoading)
    THEN UNCHANGED vars
    ELSE /\ started < MaxSends
         /\ started' = started + 1
         /\ IF Len(selectedImages) = 0
            THEN /\ sends' = Append(sends, Dispatch(NewSend(value, selectedImages)))
                 /\ calls' = calls + 1
                 /\ isLoading' = TRUE
                 /\ ClearDraft
                 /\ lastOp' = "other"
            ELSE /\ sends' = Append(sends, NewSend(value, selectedImages))
                 /\ lastOp' = "other"
                 /\ UNCHANGED <<value, draftVars, isLoading, calls, recs, layoutVars>>
         /\ UNCHANGED <<isListening, hasSpeech, isExpanded, menuVars>>

\* reader.onloadend with a result, for the file send i is waiting for: the
\* promise resolves, the part is pushed, and the loop either starts the next
\* read or falls through to lines 211-214
ReadDone(i) ==
    /\ sends[i].pc = "reading"
    /\ LET s == sends[i]
           f == s.files[Len(s.parts) + 1]
           t == [s EXCEPT !.parts = Append(@, ImagePart(f, EncodeFile(f)))]
       IN IF Len(t.parts) = Len(t.files)
          THEN /\ sends' = [sends EXCEPT ![i] = Dispatch(t)]
               /\ calls' = calls + 1
               /\ isLoading' = TRUE
               /\ ClearDraft
               /\ lastOp' = "other"
          ELSE /\ sends' = [sends EXCEPT ![i] = t]
               /\ lastOp' = "other"
               /\ UNCHANGED <<value, draftVars, isLoading, calls, recs, layoutVars>>
    /\ UNCHANGED <<started, isListening, hasSpeech, isExpanded, menuVars>>

\* a slip: the failed send gives up and clears the draft
ReadFailClearsDraft(i) ==
    /\ sends[i].pc = "reading"
    /\ sends' = [sends EXCEPT ![i] = Hung(@)]
    /\ ClearDraft
    /\ lastOp' = "other"
    /\ UNCHANGED <<isLoading, started, calls, isListening, hasSpeech, isExpanded, menuVars>>

\* reader.onloadend after a failed read: reader.result is null, split throws
\* inside the callback, resolve is never called and the await never returns
ReadFail(i) ==
    /\ sends[i].pc = "reading"
    /\ sends' = [sends EXCEPT ![i] = Hung(@)]
    /\ lastOp' = "other"
    /\ UNCHANGED <<value, draftVars, isLoading, started, calls, speechVars, layoutVars, menuVars>>

\* the sequence without its i-th element
Without(seq, i) == SubSeq(seq, 1, i - 1) \o SubSeq(seq, i + 1, Len(seq))

\* the caller's MessageSender call for send i ends, well or badly (the composer
\* is not told which), and the caller lowers isLoading
SendSettles(i) ==
    /\ sends[i].pc = "done"
    /\ sends' = Without(sends, i)
    /\ isLoading' = FALSE
    /\ lastOp' = "other"
    /\ UNCHANGED <<value, draftVars, started, calls, speechVars, layoutVars, menuVars>>

Encoded == \E i \in 1..Len(sends) : ReadDone(i)
EncodeFailed == \E i \in 1..Len(sends) : ReadFail(i)
Settled == \E i \in 1..Len(sends) : SendSettles(i)

\* ------------------------------------------------------------ layout
\* lineCount > 2
ShowFullscreenButton == lineCount > FullscreenLines

\* the fullscreen button, rendered when showFullscreenButton || isExpanded:
\* setIsExpanded(!isExpanded); the height effect follows
ToggleExpanded ==
    /\ ShowFullscreenButton \/ isExpanded
    /\ isExpanded' = ~isExpanded
    /\ HeightEffect(~isExpanded, value)
    /\ lastOp' = "other"
    /\ UNCHANGED <<value, draftVars, sendVars, speechVars, menuVars>>

\* ------------------------------------------------------ model dropdown
\* the registry of lines 70-74
GEMINI_MODELS ==
    << [id |-> "gemini-2.5-flash", name |-> "Gemini 2.5 Flash"],
       [id |-> "gemini-2.0-flash-exp", name |-> "Gemini 2.0 Flash Exp"],
       [id |-> "gemma-3-27b-it", name |-> "Gemma 3 27B"] >>

\* the ids the caller may pass as selectedModel at mount: one of the registry, one not
HostModels == {"gemini-2.5-flash", "gemini-1.5-pro"}

\* the text shown when find() returns undefined
DefaultModelName == "gemma-3-27b-it"

\* Array.prototype.find(m => m.id === id): the index of the first match, 0 for undefined
RECURSIVE Find(_, _, _)
Find(models, id, k) ==
    IF k > Len(models) THEN 0
    ELSE IF models[k].id = id THEN k
    ELSE Find(models, id, k + 1)

\* GEMINI_MODELS.find(m => m.id === selectedModel)?.name || 'gemma-3-27b-it'
SelectedModelName(id) ==
    LET k == Find(GEMINI_MODELS, id, 1)
    IN IF k = 0 \/ GEMINI_MODELS[k].name = "" THEN DefaultModelName ELSE GEMINI_MODELS[k].name

\* line 304, first branch: the inline send button is rendered
SendButtonShown(v, images, loading, listening, dropdown) == Trim(v) # <<>> \/ Len(images) > 0

\* a slip: the selector is hidden while a message is in flight
SelectorHiddenWhileLoading(v, images, loading, listening, dropdown) ==
    ~(Trim(v) # <<>> \/ Len(images) > 0) /\ ~loading

\* line 304, second branch: the model selector and the dictation button are rendered
SelectorShown(v, images, loading, listening, dropdown) == ~(Trim(v) # <<>> \/ Len(images) > 0)

\* the div that dropdownRef points to is mounted (lines 318-320)
DropdownMounted == SelectorShown(value, selectedImages, isLoading, isListening, showModelDropdown)

\* the selector button: setShowModelDropdown(!showModelDropdown)
ToggleDropdown ==
    /\ DropdownMounted
    /\ showModelDropdown' = ~showModelDropdown
    /\ lastOp' = "selector"
    /\ UNCHANGED <<value, draftVars, sendVars, speechVars, layoutVars, selectedModel, lastEntry>>

\* a slip: the entry is reported, the list stays open
SelectModelStaysOpen(k) ==
    /\ DropdownMounted
    /\ showModelDropdown
    /\ selectedModel' = GEMINI_MODELS[k].id
    /\ lastEntry' = k
    /\ lastOp' = "select"
    /\ UNCHANGED <<value, draftVars, sendVars, speechVars, layoutVars, showModelDropdown>>

\* the k-th entry of the open list: onModelChange(model.id), which the caller
\* stores as selectedModel; setShowModelDropdown(false)
SelectModel(k) ==
    /\ DropdownMounted
    /\ showModelDropdown
    /\ selectedModel' = GEMINI_MODELS[k].id
    /\ showModelDropdown' = FALSE
    /\ lastEntry' = k
    /\ lastOp' = "select"
    /\ UNCHANGED <<value, draftVars, sendVars, speechVars, layoutVars>>

SelectEntry == \E k \in 1..Len(GEMINI_MODELS) : SelectModel(k)

\* mousedown on the document with a target outside the div of dropdownRef:
\* dropdownRef.current is null while that div is not mounted
HandleClickOutside ==
    /\ showModelDropdown' = IF DropdownMounted THEN FALSE ELSE showModelDropdown
    /\ lastOp' = "mousedown"
    /\ UNCHANGED <<value, draftVars, sendVars, speechVars, layoutVars, selectedModel, lastEntry>>

\* --------------------------------------------------------- dictation
\* the transcripts the platform delivers: event.results[0][0].transcript
Transcripts == {<<"t">>}

ActiveCount == Cardinality({k \in 1..Len(recs) : Active(recs[k])})

\* onresult: value + (value ? ' ' : '') + transcript, value being the one the
\* handler closed over
Appended(v, transcript) == v \o (IF v # <<>> THEN <<" ">> ELSE <<>>) \o transcript

\* recognitionRef.current?.stop(): an object that is not started ignores it
StopCurrent ==
    IF recs # <<>> /\ Active(recs[Len(recs)])
    THEN [recs EXCEPT ![Len(recs)].stopped = TRUE]
    ELSE recs

\* recognitionRef.current?.start(): an object already started throws
\* InvalidStateError and stays as it is
StartCurrent ==
    IF recs # <<>> /\ ~Active(recs[Len(recs)])
    THEN [recs EXCEPT ![Len(recs)].st = "starting"]
    ELSE recs

\* the dictation button, rendered only while the draft is empty (line 304)
ToggleListening ==
    /\ ~DraftNonEmpty
    /\ IF isListening
       THEN recs' = StopCurrent
       ELSE /\ ActiveCount < MaxSessions
            /\ recs' = StartCurrent
    /\ lastOp' = "toggle"
    /\ UNCHANGED <<value, draftVars, sendVars, isListening, hasSpeech, layoutVars, menuVars>>

\* after an event the object k is in state st; an ended object that the ref no
\* longer holds is dropped
AfterEvent(k, st) ==
    IF st = "idle" /\ k # Len(recs) THEN Without(recs, k)
    ELSE [recs EXCEPT ![k].st = st, ![k].stopped = IF st = "idle" THEN FALSE ELSE @]

\* onstart = () => setIsListening(true)
OnStart(k) ==
    /\ recs[k].st = "starting"
    /\ isListening' = TRUE
    /\ recs' = AfterEvent(k, "listening")
    /\ lastOp' = "start"
    /\ UNCHANGED <<value, draftVars, sendVars, hasSpeech, layoutVars, menuVars>>

\* a slip: onend leaves isListening as it is
OnEndKeepsListening(k) ==
    /\ recs[k].st \in {"listening", "resulted", "errored"}
    /\ recs' = AfterEvent(k, "idle")
    /\ lastOp' = "end"
    /\ UNCHANGED <<value, draftVars, sendVars, isListening, hasSpeech, layoutVars, menuVars>>

\* onend = () => setIsListening(false)
OnEnd(k) ==
    /\ recs[k].st \in {"listening", "resulted", "errored"}
    /\ isListening' = FALSE
    /\ recs' = AfterEvent(k, "idle")
    /\ lastOp' = "end"
    /\ UNCHANGED <<value, draftVars, sendVars, hasSpeech, layoutVars, menuVars>>

\* onerror: console.error(...); setIsListening(false)
OnError(k) ==
    /\ recs[k].st \in {"starting", "listening"}
    /\ isListening' = FALSE
    /\ recs' = AfterEvent(k, "errored")
    /\ lastOp' = "error"
    /\ UNCHANGED <<value, draftVars, sendVars, hasSpeech, layoutVars, menuVars>>

\* onresult: onChange(value + (value ? ' ' : '') + transcript) with the value of
\* the render that created object k; the render that follows replaces the
\* current object when the text changed
OnResult(k, transcript) ==
    /\ recs[k].st = "listening"
    /\ LET v == Appended(recs[k].val, transcript)
           after == AfterEvent(k, "resulted")
       IN /\ Len(v) <= MaxText
          /\ value' = v
          /\ HeightEffect(isExpanded, v)
          /\ recs' = IF v # value THEN Append(ActiveOnly(after), NewRecognition(v)) ELSE after
    /\ lastOp' = "result"
    /\ UNCHANGED <<draftVars, sendVars, isListening, hasSpeech, isExpanded, menuVars>>

StartEvent == \E k \in 1..Len(recs) : OnStart(k)
EndEvent == \E k \in 1..Len(recs) : OnEnd(k)
ErrorEvent == \E k \in 1..Len(recs) : OnError(k)
ResultEvent == \E k \in 1..Len(recs), transcript \in Transcripts : OnResult(k, transcript)

\* ------------------------------------------------------------------ init
Init ==
    /\ value = <<>>
    /\ isLoading = FALSE
    /\ selectedImages = <<>>
    /\ imagePreviews = <<>>
    /\ created = 0
    /\ revokes = <<>>
    /\ sends = <<>>
    /\ started = 0
    /\ calls = 0
    /\ isListening = FALSE
    /\ hasSpeech \in BOOLEAN
    /\ recs = IF hasSpeech THEN <<NewRecognition(<<>>)>> ELSE <<>>
    /\ isExpanded = FALSE
    /\ height = NewHeight(FALSE, <<>>)
    /\ lineCount = NewLineCount(FALSE, <<>>)
    /\ showModelDropdown = FALSE
    /\ selectedModel \in HostModels
    /\ lastEntry = 0
    /\ lastOp = "other"

\* mounted in a browser that has the speech capability, the caller passing the
\* first registry id
InitSpeech == Init /\ hasSpeech = TRUE /\ selectedModel = GEMINI_MODELS[1].id

\* mounted in a browser that has the speech capability, with any model id
InitMenu == Init /\ hasSpeech = TRUE

\* the composer's draft and send machinery
NextSend == Type \/ AddAttachments \/ RemoveAttachment \/ HandleSend
            \/ Encoded \/ EncodeFailed \/ Settled
SpecSend == InitSpeech /\ [][NextSend]_vars

\* editing the draft without sending it: text, attachments, fullscreen
NextDraft == Type \/ Paste \/ ToggleExpanded \/ AddAttachments \/ RemoveAttachment
SpecDraft == InitSpeech /\ [][NextDraft]_vars

\* dictation: the text, the dictation button and the platform's events
NextDictation == Type \/ ToggleListening \/ StartEvent \/ EndEvent \/ ErrorEvent \/ ResultEvent
SpecDictation == Init /\ [][NextDictation]_vars

\* the model dropdown, with the text and the attachments that switch it away
NextMenu == Type \/ AddAttachments \/ RemoveAttachment
            \/ ToggleDropdown \/ SelectEntry \/ HandleClickOutside
SpecMenu == InitMenu /\ [][NextMenu]_vars

\* the controls of the bottom row: send button or selector and dictation button
NextControls == Type \/ AddAttachments \/ HandleSend \/ Settled
                \/ ToggleListening \/ StartEvent \/ ToggleDropdown
SpecControls == InitSpeech /\ [][NextControls]_vars

\* the whole composer
Next == NextSend \/ NextDraft \/ NextDictation \/ NextMenu
Spec == Init /\ [][Next]_vars

\* ================================================================ properties
Range(seq) == {seq[k] : k \in 1..Len(seq)}

SendIndexes == 1..Len(sends)

\* C1: two send() calls of which the second arrives while the first is still
\* encoding result in exactly one invocation of MessageSender: no two calls,
\* one begun during the other, have both invoked it.
C1_DoubleSubmitSendsOnce ==
    \A i \in SendIndexes, j \in SendIndexes :
        sends[i].id \in sends[j].during => ~(sends[i].pc = "done" /\ sends[j].pc = "done")

\* C2: the draft is cleared only on a successful send: no send has cleared the
\* draft while its MessageSender call is still in flight (pc "done": the call
\* was made, the draft was cleared, the call has not ended).
C2_ClearedOnlyAfterSuccess ==
    \A i \in SendIndexes : ~(sends[i].pc = "done")

\* the preview URLs created and not revoked
LiveUrls == {u \in 1..created : revokes[u] = 0}

\* C3: after any sequence of addAttachments and removeAttachment calls the number
\* of live preview URLs equals the number of attachments in the draft.
C3_LivePreviewsMatchAttachments == Cardinality(LiveUrls) = Len(selectedImages)

\* C3 witness: attachments were added and one was removed, one is left
C3_Witness ==
    /\ created = 2
    /\ Len(selectedImages) = 1
    /\ \E u \in 1..created : revokes[u] = 1

\* C4: no preview URL outlives its attachment, and each is revoked exactly once:
\* a URL still in the preview list is unrevoked, every other URL created was
\* revoked once (at removal or when send cleared the draft).
C4_PreviewsReleasedOnce ==
    \A u \in 1..created :
        IF u \in Range(imagePreviews) THEN revokes[u] = 0 ELSE revokes[u] = 1

\* the precondition of C5: trimmed text empty and no attachments, or loading
C5_Blocked == (Trim(value) = <<>> /\ Len(selectedImages) = 0) \/ isLoading

\* C5: send() is a no-op whenever the trimmed text is empty and there are no
\* attachments, or isLoading is true: from such a state no step starts a send
\* call, so none reaches MessageSender.
C5_BlockedSendIsNoOp ==
    [][C5_Blocked => (started' = started /\ Len(sends') <= Len(sends))]_vars

\* C5 witness: a message is in flight and the user has typed the next one
C5_Witness ==
    /\ isLoading
    /\ Trim(value) # <<>>
    /\ started < MaxSends

\* what MessageSender must receive for the files of a send
ExpectedParts(files) ==
    [k \in 1..Len(files) |->
        [data |-> Base64(FileOf(files[k]).bytes), mimeType |-> FileOf(files[k]).type]]

\* the sends that have not invoked MessageSender (still encoding, or hung)
Pending == {i \in SendIndexes : sends[i].pc # "done"}

\* C6, the state part: every send past the gate that is through encoding has
\* invoked MessageSender exactly once, with the untrimmed text of its call and
\* the payloads of all its files in order (base64 of the bytes, MIME type), the
\* list omitted when there are no files, and not before all were encoded.
C6_Invoked ==
    /\ calls = started - Cardinality(Pending)
    /\ \A i \in SendIndexes :
          sends[i].pc = "done" =>
            /\ sends[i].sentText = sends[i].text
            /\ Len(sends[i].parts) = Len(sends[i].files)
            /\ sends[i].sentParts.defined = (Len(sends[i].files) > 0)
            /\ sends[i].sentParts.list = ExpectedParts(sends[i].files)
    /\ \A i \in Pending : sends[i].pc = "reading" => Len(sends[i].parts) < Len(sends[i].files)

\* C6: a send whose precondition holds invokes MessageSender once with the text
\* and the encoded attachments (C6_Invoked), and right after the invocation the
\* draft text is "" and the attachment list is empty.
C6_SendDeliversDraft ==
    /\ []C6_Invoked
    /\ [][calls' > calls => (value' = <<>> /\ selectedImages' = <<>>)]_vars

\* C6 witness: a send of whitespace text with two attachments has invoked
C6_Witness ==
    \E i \in SendIndexes :
        /\ sends[i].pc = "done"
        /\ sends[i].text = <<" ">>
        /\ Len(sends[i].files) = 2
        /\ value = <<>>

\* C7 as stated: DictationState is Idle (isListening false) right after any end,
\* error or final-result event has been handled.
C7_IdleAfterEveryEvent ==
    [][lastOp' \in {"end", "error", "result"} => ~isListening']_vars

\* C7 as amended: isListening is false until a start event is handled, it is
\* false right after any end or error event, and a result event leaves it as it
\* was (Idle follows with the session's end event).
C7_IdleAfterEndOrError ==
    /\ [][(~isListening /\ isListening') => lastOp' = "start"]_vars
    /\ [][lastOp' \in {"end", "error"} => ~isListening']_vars
    /\ [][lastOp' = "result" => isListening' = isListening]_vars

\* C7 witness: a session delivered its transcript and then ended
C7_Witness ==
    /\ lastOp = "end"
    /\ value = <<"t">>
    /\ ~isListening

\* C8: a result event appends the transcript to the draft text current at that
\* moment, after one space when that text is non-empty; nothing is dropped.
C8_TranscriptAppendedToDraft ==
    [][lastOp' = "result" =>
          \E transcript \in Transcripts :
              value' = value \o (IF value # <<>> THEN <<" ">> ELSE <<>>) \o transcript]_vars

\* C9: at most one recognition session is active at any time.
C9_OneSessionActive == ActiveCount <= 1

\* C10 as stated: 480 when expanded, 40 when the text is blank and not expanded,
\* otherwise strictly between 40 and 180.
C10_HeightStrictlyBetween ==
    /\ isExpanded => height = ExpandedHeight
    /\ (~isExpanded /\ Trim(value) = <<>>) => height = MinHeight
    /\ (~isExpanded /\ Trim(value) # <<>>) => (height > MinHeight /\ height < MaxHeight)

C10_Bounds ==
    /\ isExpanded => height = ExpandedHeight
    /\ (~isExpanded /\ Trim(value) = <<>>) => height = MinHeight
    /\ (~isExpanded /\ Trim(value) # <<>>) => (height >= MinHeight /\ height <= MaxHeight)

\* C10 as amended: 480 when expanded, 40 when the text is blank and not expanded,
\* otherwise from 40 to 180, both ends included, and never smaller for a text
\* whose content is at least as tall.
C10_HeightBetween ==
    /\ []C10_Bounds
    /\ [][(~isExpanded /\ ~isExpanded' /\ Trim(value) # <<>> /\ Trim(value') # <<>>
            /\ ContentHeight(value') >= ContentHeight(value)) => height' >= height]_vars

\* C10 witness: a visible text taller than the cap, not expanded, at the cap
C10_Witness ==
    /\ ~isExpanded
    /\ Trim(value) # <<>>
    /\ ContentHeight(value) > MaxHeight
    /\ height = MaxHeight

\* the registry entries whose id is the selected one
C11_Matches == {k \in 1..Len(GEMINI_MODELS) : GEMINI_MODELS[k].id = selectedModel}

\* C11: selecting a dropdown entry reports that entry's id (the caller stores it
\* as selectedModel) and closes the dropdown; the name displayed is the registry
\* name of the selected id, and the fixed default when no entry has that id.
C11_SelectionReportedAndShown ==
    /\ [][lastOp' = "select" =>
            (selectedModel' = GEMINI_MODELS[lastEntry'].id /\ ~showModelDropdown')]_vars
    /\ [](IF C11_Matches = {}
          THEN SelectedModelName(selectedModel) = "gemma-3-27b-it"
          ELSE \E k \in C11_Matches : SelectedModelName(selectedModel) = GEMINI_MODELS[k].name)

\* C11 witness: the second entry was chosen, the dropdown is closed and the
\* selector shows that entry's name
C11_Witness ==
    /\ lastOp = "select"
    /\ lastEntry = 2
    /\ selectedModel = "gemini-2.0-flash-exp"
    /\ SelectedModelName(selectedModel) = "Gemini 2.0 Flash Exp"
    /\ ~showModelDropdown

\* C12: in every state exactly one of the send button and the selector with the
\* dictation button is rendered, the send button exactly when the trimmed text
\* is non-empty or there is an attachment, whatever isLoading, isListening and
\* the dropdown's open flag are.
C12_OneControlByDraft ==
    \A loading \in {isLoading, TRUE, FALSE}, listening \in {isListening, TRUE, FALSE},
       dropdown \in {showModelDropdown, TRUE, FALSE} :
        /\ SendButtonShown(value, selectedImages, loading, listening, dropdown)
             # SelectorShown(value, selectedImages, loading, listening, dropdown)
        /\ SendButtonShown(value, selectedImages, loading, listening, dropdown)
             = (Trim(value) # <<>> \/ Len(selectedImages) > 0)

\* C12 witness: a message is in flight, a session is listening and the dropdown
\* is open while the draft is empty
C12_Witness ==
    /\ isLoading
    /\ isListening
    /\ showModelDropdown
    /\ Trim(value) = <<>>
    /\ Len(selectedImages) = 0

\* C14: right after a mousedown outside the dropdown the open flag is false.
C14_ClosedAfterOutsideMouseDown ==
    [][lastOp' = "mousedown" => ~showModelDropdown']_vars

\* the send that is at pc p in this state is at pc q in the next
C13_Moves(p, q) ==
    \E i \in SendIndexes, j \in 1..Len(sends') :
        sends[i].pc = p /\ sends'[j].id = sends[i].id /\ sends'[j].pc = q

\* C13: a send one of whose file reads failed never invokes MessageSender, with
\* no subset of the attachments either (it stays where the failure left it), and
\* the step in which the read fails leaves the text, the attachments and the
\* previews as they were.
C13_FailedEncodingSendsNothing ==
    /\ [][\A i \in SendIndexes : sends[i].pc = "hung" =>
            \E j \in 1..Len(sends') : sends'[j].id = sends[i].id /\ sends'[j].pc = "hung"]_vars
    /\ [][C13_Moves("reading", "hung") =>
            /\ calls' = calls
            /\ isLoading' = isLoading
            /\ value' = value
            /\ selectedImages' = selectedImages
            /\ imagePreviews' = imagePreviews]_vars

\* C13 witness: a read of a send failed; text and two attachments are still there
\* and nothing was sent
C13_Witness ==
    /\ \E i \in SendIndexes : sends[i].pc = "hung"
    /\ value = <<"a">>
    /\ Len(selectedImages) = 2
    /\ calls = 0

\* C18: in the step in which a send invokes MessageSender and clears the draft,
\* the text and the attachments it clears (those of the state before) are the
\* text and the files it passes.
C18_ClearedIsWhatWasSent ==
    [][\A j \in 1..Len(sends') :
          (sends'[j].pc = "done"
           /\ ~\E i \in SendIndexes : sends[i].id = sends'[j].id /\ sends[i].pc = "done")
          => (sends'[j].sentText = value /\ sends'[j].files = selectedImages)]_vars

\* C19: the file list and the preview list have the same length, and the preview
\* at every index is the URL created for the file at that index.
C19_ListsAligned ==
    /\ Len(selectedImages) = Len(imagePreviews)
    /\ \A i \in 1..Len(selectedImages) : imagePreviews[i] = CreateObjectURL(selectedImages[i])

\* C19 witness: an attachment was removed, a message was sent, and an attachment
\* is staged
C19_Witness ==
    /\ calls >= 1
    /\ \E u \in 1..created : revokes[u] = 1
    /\ Len(selectedImages) = 1

\* C20: a send past the gate that has neither invoked MessageSender nor aborted
\* is waiting for a file read that is still outstanding; none is suspended with
\* all its started reads finished.
C20_SendNeverStuck ==
    \A i \in SendIndexes : sends[i].pc \in {"reading", "done"}

\* the list without its element at index (counted from 0), the others in order
C15_Removed(seq, index) ==
    [k \in 1..(Len(seq) - 1) |-> IF k <= index THEN seq[k] ELSE seq[k + 1]]

C16_StopReachesListeningSession ==
    [][(lastOp' = "toggle" /\ isListening) =>
          \A k \in 1..Len(recs) :
              recs[k].st = "listening" => (k <= Len(recs') /\ recs'[k].stopped)]_vars

\* C17: without the speech capability there is no recognition object, so no
\* start() or stop() is delivered, isListening is false in every state, and a
\* press of the dictation button changes nothing.
C17_InertWithoutSpeech ==
    /\ [](~hasSpeech => (~isListening /\ recs = <<>>))
    /\ [][(~hasSpeech /\ lastOp' = "toggle") =>
            (recs' = recs /\ isListening' = isListening /\ value' = value)]_vars

\* C17 witness: the button was pressed in a browser without the capability
C17_Witness ==
    /\ ~hasSpeech
    /\ lastOp = "toggle"
    /\ ~isListening

====
